---- MODULE Spec2Model ----
(***************************************************************************)
(* Model of the NAMASTE -> ICD-11 mapping batch                            *)
(* (backend/setup/auto_mapping.py, backend/setup/mapping_algorithm.py).    *)
(*                                                                         *)
(* Text values are sequences of one-string tokens: a token is a blank      *)
(* (" "), a punctuation mark, or a word / character.  pandas' NaN and      *)
(* Python's None are the distinguished values NaN and NoneVal; Missing     *)
(* stands for a key or column that is absent, so that the default of the   *)
(* corresponding .get(...) applies.                                        *)
(*                                                                         *)
(* Scores: the two partial scores are integers in units of 1e-5, the       *)
(* combined score and every value derived from it in units of 1e-6, so     *)
(* that 0.7*s + 0.3*k is the integer 7*s + 3*k.                            *)
(***************************************************************************)
EXTENDS Integers, Sequences, FiniteSets, TLC

\* ---------------------------------------------------------------- bounds
MaxConcepts == 2
MaxCands == 2
MaxSuggestCands == 6
MaxScoreSteps == 110
MaxCodeLen == 4
MaxTime == 3
MaxTokens == 2
MaxSkipCands == 3
MaxRows == 3
MaxSymptoms == 2
MaxEntities == 2
MaxLimit == 2

\* ------------------------------------------------------- special values
NaN == <<"NaN">>
NoneVal == <<"None">>
Missing == <<"Missing">>

Range(s) == {s[k] : k \in 1..Len(s)}

\* ------------------------------------------------------- python helpers
\* str.strip(): drop leading and trailing blanks
RECURSIVE LStrip(_)
LStrip(s) ==
  IF s # <<>> /\ Head(s) = " " THEN LStrip(Tail(s)) ELSE s

RECURSIVE RStrip(_)
RStrip(s) ==
  IF s # <<>> /\ s[Len(s)] = " " THEN RStrip(SubSeq(s, 1, Len(s) - 1)) ELSE s

Strip(s) == RStrip(LStrip(s))

\* `x or ""` : a falsy x (the empty string) gives "", NaN is truthy
OrEmpty(x) == IF x = <<>> THEN <<>> ELSE x

\* row.get(col, "") : the default applies when the column is absent
RowGet(cell) == IF cell = Missing THEN <<>> ELSE cell

\* ------------------------------------------------- auto_mapping: loader
ValidPrefixSecond == {"R", "K", "M", "L", "N", "P", "Q"}

\* variant: only the first character is compared
StartsWithS(s) ==
  Len(s) >= 1 /\ s[1] = "S"

StartsWithValidPrefix(s) ==
  Len(s) >= 2 /\ s[1] = "S" /\ s[2] \in ValidPrefixSecond

\* index of the first "(" that is followed by at least one non-")"
\* character and then a ")"; 0 when the pattern \(([^)]+)\) has no match
ParenMatchStarts(s) ==
  {a \in 1..Len(s) :
     /\ s[a] = "("
     /\ \E b \in (a + 2)..Len(s) :
          /\ s[b] = ")"
          /\ \A k \in (a + 1)..(b - 1) : s[k] # ")"}

Min(S) == CHOOSE x \in S : \A y \in S : x <= y

extract_namaste_id(namc_code) ==
  IF namc_code = NaN THEN namc_code
  ELSE IF ParenMatchStarts(namc_code) = {} THEN namc_code
  ELSE LET a == Min(ParenMatchStarts(namc_code))
           b == Min({k \in (a + 1)..Len(namc_code) : namc_code[k] = ")"})
       IN  SubSeq(namc_code, a + 1, b - 1)

\* longest prefix of s without "(" (the group of ^([^(]+))
RECURSIVE PrefixBeforeParen(_)
PrefixBeforeParen(s) ==
  IF s = <<>> \/ Head(s) = "(" THEN <<>>
  ELSE <<Head(s)>> \o PrefixBeforeParen(Tail(s))

extract_icd_mapping(namc_code) ==
  IF namc_code = NaN THEN NoneVal
  ELSE LET group == PrefixBeforeParen(Strip(namc_code))
           icd_part == Strip(group)
       IN  IF group # <<>> /\ StartsWithValidPrefix(icd_part)
           THEN icd_part
           ELSE NoneVal

\* pd.notna
NotNa(x) == x # NaN /\ x # NoneVal

LoadConcept(row) ==
  [ code                 |-> extract_namaste_id(row.NAMC_CODE),
    original_namc_code   |-> row.NAMC_CODE,
    term                 |-> OrEmpty(RowGet(row.NAMC_term)),
    definition           |-> OrEmpty(RowGet(row.Long_definition)),
    existing_icd_mapping |-> extract_icd_mapping(row.NAMC_CODE),
    has_existing_mapping |-> NotNa(extract_icd_mapping(row.NAMC_CODE)) ]

load_namaste_concepts_from_csv(exists, rows) ==
  IF ~exists THEN <<>>
  ELSE [k \in 1..Len(rows) |-> LoadConcept(rows[k])]

\* variant: the selected elements come out in reverse order
RECURSIVE SelectSeqByReversed(_, _)
SelectSeqByReversed(xs, flag) ==
  IF xs = <<>> THEN <<>>
  ELSE IF Head(xs).has_existing_mapping = flag
       THEN SelectSeqByReversed(Tail(xs), flag) \o <<Head(xs)>>
       ELSE SelectSeqByReversed(Tail(xs), flag)

\* list comprehension [c for c in xs if P(c)]
RECURSIVE SelectSeqBy(_, _)
SelectSeqBy(xs, flag) ==
  IF xs = <<>> THEN <<>>
  ELSE IF Head(xs).has_existing_mapping = flag
       THEN <<Head(xs)>> \o SelectSeqBy(Tail(xs), flag)
       ELSE SelectSeqBy(Tail(xs), flag)

\* ------------------------------------------ mapping_algorithm: scoring
similarity_weight == 7
keyword_weight == 3

StopWords == {"the", "of"}
Punctuation == {",", "."}

\* token.lemma_.lower() of the language model, on the words of the model
Lemma(tok) ==
  CASE tok = "temperatures" -> "temperature"
    [] tok = "Temperature"  -> "temperature"
    [] tok = "Pyrexia"      -> "pyrexia"
    [] OTHER                -> tok

\* {token.lemma_.lower() for token in doc if not is_stop and not is_punct}
Lemmas(text) ==
  {Lemma(text[k]) : k \in {j \in 1..Len(text) :
      text[j] # " " /\ text[j] \notin StopWords /\ text[j] \notin Punctuation}}

\* _calculate_similarity_score: 0.0 when a text is empty, else the value
\* doc1.similarity(doc2) of the embedding model (model_sim, units of 1e-5)
calculate_similarity_score(text1, text2, model_sim) ==
  IF text1 = <<>> \/ text2 = <<>> THEN 0 ELSE model_sim

\* _calculate_keyword_score: Jaccard coefficient of the lemma sets
calculate_keyword_score(text1, text2) ==
  LET lemmas1 == Lemmas(text1)
      lemmas2 == Lemmas(text2)
      union == lemmas1 \cup lemmas2
  IN  IF union = {} THEN 0
      ELSE (Cardinality(lemmas1 \cap lemmas2) * 100000) \div Cardinality(union)

\* nlp(text) raises on a value that is not a string
NlpRaises(text) == text = NaN

\* the scoring statements of the loop body raise (outside the try block)
\* when the language model is applied to a NaN definition: the keyword
\* score applies it to both texts unconditionally
ScoringRaises(namaste_definition, icd_definition) ==
  NlpRaises(namaste_definition)

\* variant: the two weights exchanged
final_score_swapped(similarity_score, keyword_score) ==
  (similarity_score * keyword_weight) + (keyword_score * similarity_weight)

final_score(similarity_score, keyword_score) ==
  (similarity_score * similarity_weight) + (keyword_score * keyword_weight)

\* candidate.get("@id", "").split('/')[-1] ; the id is kept split at '/'
LastSegment(id) == IF id = Missing THEN "" ELSE id[Len(id)]

\* candidate.get("title", "").strip()
CandTitle(candidate) == Strip(RowGet(candidate.title))

\* the try block of the loop body: details, definition, code
DetailsFailed(candidate) == candidate.details.raised \/ candidate.context.raised

IcdDefinition(candidate) ==
  IF DetailsFailed(candidate) THEN CandTitle(candidate)
  ELSE IF candidate.details.definition = Missing THEN CandTitle(candidate)
  ELSE candidate.details.definition

IcdCode(candidate) ==
  IF DetailsFailed(candidate) THEN <<"Error fetching">>
  ELSE IF candidate.context.code = Missing THEN <<"Err">>
  ELSE candidate.context.code

\* variant: only the title is looked at
RetainedByTitle(candidate) ==
  CandTitle(candidate) # <<>>

Retained(candidate) ==
  CandTitle(candidate) # <<>> /\ LastSegment(candidate.id) # ""

\* one scored_suggestions entry; pos is the candidate's place in the
\* search result (kept to observe the order of equal scores)
ScoredEntry(namaste_definition, candidate, pos) ==
  LET icd_definition == IcdDefinition(candidate)
      similarity == calculate_similarity_score(namaste_definition,
                                               icd_definition, candidate.sim)
      keyword == calculate_keyword_score(namaste_definition, icd_definition)
  IN  [ icd_code       |-> IcdCode(candidate),
        icd_term       |-> CandTitle(candidate),
        icd_definition |-> icd_definition,
        score          |-> final_score(similarity, keyword),
        score_details  |-> [similarity |-> similarity, keyword |-> keyword],
        pos            |-> pos ]

\* variant: a candidate whose details could not be fetched is left out
RECURSIVE ScoredSuggestionsDropFailed(_, _, _)
ScoredSuggestionsDropFailed(namaste_definition, candidates, n) ==
  IF n = 0 THEN <<>>
  ELSE LET before == ScoredSuggestionsDropFailed(namaste_definition, candidates, n - 1)
       IN  IF Retained(candidates[n]) /\ ~DetailsFailed(candidates[n])
           THEN Append(before, ScoredEntry(namaste_definition, candidates[n], n))
           ELSE before

\* the for loop over candidates, up to and including candidate n
RECURSIVE ScoredSuggestions(_, _, _)
ScoredSuggestions(namaste_definition, candidates, n) ==
  IF n = 0 THEN <<>>
  ELSE LET before == ScoredSuggestions(namaste_definition, candidates, n - 1)
       IN  IF Retained(candidates[n])
           THEN Append(before, ScoredEntry(namaste_definition, candidates[n], n))
           ELSE before

\* sorted(..., key=score, reverse=True): stable, equal scores keep their order
\* variant: an element is placed before the elements of equal score
RECURSIVE InsertDescBeforeTies(_, _)
InsertDescBeforeTies(sorted, e) ==
  IF sorted = <<>> THEN <<e>>
  ELSE IF Head(sorted).score > e.score
       THEN <<Head(sorted)>> \o InsertDescBeforeTies(Tail(sorted), e)
       ELSE <<e>> \o sorted

RECURSIVE InsertDesc(_, _)
InsertDesc(sorted, e) ==
  IF sorted = <<>> THEN <<e>>
  ELSE IF Head(sorted).score >= e.score
       THEN <<Head(sorted)>> \o InsertDesc(Tail(sorted), e)
       ELSE <<e>> \o sorted

RECURSIVE SortedDesc(_)
SortedDesc(xs) ==
  IF xs = <<>> THEN <<>>
  ELSE InsertDesc(SortedDesc(SubSeq(xs, 1, Len(xs) - 1)), xs[Len(xs)])

\* variant: xs[-n:]
SliceLast(xs, n) ==
  SubSeq(xs, (IF Len(xs) < n THEN 0 ELSE Len(xs) - n) + 1, Len(xs))

\* xs[:n]
Slice(xs, n) == SubSeq(xs, 1, IF Len(xs) < n THEN Len(xs) ELSE n)

DefaultTopN == 5

\* search_results.get("destinationEntities", [])
Candidates(resp) ==
  IF ~resp.has_entities THEN <<>> ELSE resp.destinationEntities

\* calls to the lookup client made for candidates n..Len(candidates): a
\* retained candidate gets get_entity_details and, when that returned,
\* get_entity_context; when scoring raises the loop ends at that candidate
RECURSIVE CandidateCalls(_, _, _)
CandidateCalls(namaste_definition, candidates, n) ==
  IF n > Len(candidates) THEN <<>>
  ELSE IF ~Retained(candidates[n])
       THEN CandidateCalls(namaste_definition, candidates, n + 1)
       ELSE LET own == IF candidates[n].details.raised
                       THEN <<[op |-> "get_entity_details", pos |-> n]>>
                       ELSE <<[op |-> "get_entity_details", pos |-> n],
                              [op |-> "get_entity_context", pos |-> n]>>
            IN  IF ScoringRaises(namaste_definition, IcdDefinition(candidates[n]))
                THEN own
                ELSE own \o CandidateCalls(namaste_definition, candidates, n + 1)

\* all calls of one suggest_mappings invocation, in order
SuggestCalls(namaste_definition, resp) ==
  <<[op |-> "search_conditions", pos |-> 0]>>
  \o (IF resp.raised THEN <<>>
      ELSE CandidateCalls(namaste_definition, Candidates(resp), 1))

\* variant: an empty search result yields a placeholder suggestion
suggest_mappings_placeholder(namaste_term, namaste_definition, resp, top_n) ==
  IF resp.raised
  THEN [raised |-> TRUE, result |-> <<>>, no_candidates |-> FALSE, warned |-> {},
        calls |-> SuggestCalls(namaste_definition, resp)]
  ELSE LET candidates == Candidates(resp)
       IN  IF candidates = <<>>
           THEN [raised |-> FALSE,
                 result |-> <<[ icd_code |-> <<"Err">>, icd_term |-> <<>>,
                                icd_definition |-> <<>>, score |-> 0,
                                score_details |-> [similarity |-> 0, keyword |-> 0],
                                pos |-> 0 ]>>,
                 no_candidates |-> TRUE, warned |-> {},
                 calls |-> SuggestCalls(namaste_definition, resp)]
           ELSE IF \E n \in 1..Len(candidates) :
                     Retained(candidates[n]) /\ NlpRaises(namaste_definition)
           THEN [raised |-> TRUE, result |-> <<>>, no_candidates |-> FALSE,
                 warned |-> {},
                 calls |-> SuggestCalls(namaste_definition, resp)]
           ELSE [raised |-> FALSE,
                 result |-> Slice(SortedDesc(ScoredSuggestions(namaste_definition,
                                   candidates, Len(candidates))), top_n),
                 no_candidates |-> FALSE,
                 warned |-> {n \in 1..Len(candidates) :
                               Retained(candidates[n]) /\ DetailsFailed(candidates[n])},
                 calls |-> SuggestCalls(namaste_definition, resp)]

\* MappingSuggester.suggest_mappings; resp is the answer of the lookup
\* client to the search, each candidate carrying the client's answers to
\* the two per-candidate calls and the embedding model's similarity
suggest_mappings(namaste_term, namaste_definition, resp, top_n) ==
  IF resp.raised
  THEN [raised |-> TRUE, result |-> <<>>, no_candidates |-> FALSE, warned |-> {},
        calls |-> SuggestCalls(namaste_definition, resp)]
  ELSE LET candidates == Candidates(resp)
           retained == {n \in 1..Len(candidates) : Retained(candidates[n])}
       IN  IF candidates = <<>>
           THEN [raised |-> FALSE, result |-> <<>>, no_candidates |-> TRUE,
                 warned |-> {},
                 calls |-> SuggestCalls(namaste_definition, resp)]
           ELSE IF \E n \in retained :
                     ScoringRaises(namaste_definition, IcdDefinition(candidates[n]))
           THEN [raised |-> TRUE, result |-> <<>>, no_candidates |-> FALSE,
                 warned |-> {},
                 calls |-> SuggestCalls(namaste_definition, resp)]
           ELSE [raised |-> FALSE,
                 result |-> Slice(SortedDesc(ScoredSuggestions(namaste_definition,
                                   candidates, Len(candidates))), top_n),
                 no_candidates |-> FALSE,
                 warned |-> {n \in retained : DetailsFailed(candidates[n])},
                 calls |-> SuggestCalls(namaste_definition, resp)]

\* --------------------------------------------- auto_mapping: the batch
ThresholdEquivalent == 850000
ThresholdEqual == 750000
ThresholdWider == 600000

\* variant: the thresholds belong to the lower category
determine_equivalence_exclusive(score) ==
  IF score > ThresholdEquivalent THEN "equivalent"
  ELSE IF score > ThresholdEqual THEN "equal"
  ELSE IF score > ThresholdWider THEN "wider"
  ELSE "relatedto"

determine_equivalence(score) ==
  IF score >= ThresholdEquivalent THEN "equivalent"
  ELSE IF score >= ThresholdEqual THEN "equal"
  ELSE IF score >= ThresholdWider THEN "wider"
  ELSE "relatedto"

\* round(score, 4): to the nearest multiple of 1e-4, halves to even
Round4(score) ==
  LET r == score % 100
      low == score - r
  IN  IF r < 50 THEN low
      ELSE IF r > 50 THEN low + 100
      ELSE IF (low \div 100) % 2 = 0 THEN low ELSE low + 100

UnknownIcdTerm == <<"Unknown ICD Term">>

\* get_icd_term_for_existing_mapping; lookup is what the client answers
\* to search_code and get_entity_details
TermLookupFailed(lookup) ==
  \/ lookup.search_raised
  \/ lookup.stemId = Missing
  \/ lookup.details_raised
  \/ ~lookup.title.present

\* calls to the lookup client made by get_icd_term_for_existing_mapping
TermLookupCalls(lookup) ==
  IF lookup.search_raised \/ lookup.stemId = Missing
  THEN <<"search_code">>
  ELSE <<"search_code", "get_entity_details">>

\* the events of one concept: calls to the lookup client and sleeps
Events(ops, code) == [k \in 1..Len(ops) |-> [op |-> ops[k], code |-> code]]

OpsOf(suggest_calls) == [k \in 1..Len(suggest_calls) |-> suggest_calls[k].op]

\* variant: only a raising call is handled, a missing field gives None
get_icd_term_unhandled_field(lookup) ==
  IF lookup.search_raised \/ lookup.details_raised THEN UnknownIcdTerm
  ELSE IF lookup.stemId = Missing \/ ~lookup.title.present THEN NoneVal
  ELSE IF lookup.title.value = Missing THEN <<"Nan">>
  ELSE lookup.title.value

get_icd_term_for_existing_mapping(lookup) ==
  IF TermLookupFailed(lookup) THEN UnknownIcdTerm
  ELSE IF lookup.title.value = Missing THEN <<"Nan">>
  ELSE lookup.title.value

\* variant: a record whose term lookup failed is downgraded
ExistingRecordDowngraded(concept, icd_term) ==
  [ namaste_code       |-> concept.code,
    namaste_term       |-> concept.term,
    icd_code           |-> concept.existing_icd_mapping,
    icd_term           |-> icd_term,
    equivalence        |-> IF icd_term = UnknownIcdTerm THEN "relatedto" ELSE "equivalent",
    confidence_score   |-> IF icd_term = UnknownIcdTerm THEN 0 ELSE 1000000,
    mapping_source     |-> "existing",
    original_namc_code |-> concept.original_namc_code ]

ExistingRecord(concept, icd_term) ==
  [ namaste_code       |-> concept.code,
    namaste_term       |-> concept.term,
    icd_code           |-> concept.existing_icd_mapping,
    icd_term           |-> icd_term,
    equivalence        |-> "equivalent",
    confidence_score   |-> 1000000,
    mapping_source     |-> "existing",
    original_namc_code |-> concept.original_namc_code ]

GeneratedRecord(concept, top) ==
  [ namaste_code       |-> concept.code,
    namaste_term       |-> concept.term,
    icd_code           |-> top.icd_code,
    icd_term           |-> top.icd_term,
    equivalence        |-> determine_equivalence(top.score),
    confidence_score   |-> Round4(top.score),
    mapping_source     |-> "generated",
    original_namc_code |-> concept.original_namc_code ]

\* save_mappings_to_csv: nothing is written for an empty list
save_mappings_to_csv(mappings, file) ==
  IF mappings = <<>> THEN file
  ELSE [exists |-> TRUE, rows |-> mappings]

CountSource(mappings, source) ==
  Cardinality({k \in 1..Len(mappings) : mappings[k].mapping_source = source})

Summary(mappings) ==
  [ total     |-> Len(mappings),
    existing  |-> CountSource(mappings, "existing"),
    generated |-> CountSource(mappings, "generated") ]

\* ------------------------------------------------------- input domains
SeqsUpTo(S, n) == UNION {[1..k -> S] : k \in 0..n}

DefText == <<"elevated", " ", "temperature">>
GoodTitle == <<"Pyrexia">>
GoodId == <<"entity", "X1">>

IdChar(r) == <<"A", "B", "C", "D", "E">>[r]

ExistingCode(r) == <<"S", "R", IdChar(r), " ", "(", IdChar(r), ")">>
PlainCode(r) == <<IdChar(r)>>

ExistingTermCells == {Missing, <<" ">>, <<"fever">>}
PlainTermCells == {NaN, Missing, <<" ">>, <<"fever">>}
DefCells == {NaN, Missing, DefText}

\* the rows a source file may hold at line r
RowPool(r) ==
  {[NAMC_CODE |-> ExistingCode(r), NAMC_term |-> t, Long_definition |-> DefText] :
      t \in ExistingTermCells}
  \cup
  {[NAMC_CODE |-> PlainCode(r), NAMC_term |-> t, Long_definition |-> DefText] :
      t \in PlainTermCells}
  \cup
  {[NAMC_CODE |-> PlainCode(r), NAMC_term |-> <<"fever">>, Long_definition |-> d] :
      d \in DefCells}

CsvFiles ==
  UNION {{rows \in [1..n -> UNION {RowPool(r) : r \in 1..n}] :
            \A r \in 1..n : rows[r] \in RowPool(r)} : n \in 0..MaxConcepts}

\* answers of the lookup client to the term lookup of an existing mapping
TermLookups ==
  [ search_raised : BOOLEAN,
    stemId : {Missing, GoodId},
    details_raised : BOOLEAN,
    title : {[present |-> FALSE, value |-> Missing],
             [present |-> TRUE, value |-> Missing],
             [present |-> TRUE, value |-> GoodTitle]} ]

\* answers of the lookup client for one search candidate
DetailsAnswers(defs) ==
  {[raised |-> TRUE, definition |-> Missing]}
  \cup {[raised |-> FALSE, definition |-> d] : d \in defs}

ContextAnswers ==
  {[raised |-> TRUE, code |-> Missing],
   [raised |-> FALSE, code |-> Missing],
   [raised |-> FALSE, code |-> <<"1A00">>]}

ValidCands(defs, sims) ==
  {[title |-> GoodTitle, id |-> GoodId, details |-> d, context |-> c, sim |-> m] :
      d \in {x \in DetailsAnswers(defs) : ~x.raised}, c \in ContextAnswers, m \in sims}
  \cup
  {[title |-> GoodTitle, id |-> GoodId,
    details |-> [raised |-> TRUE, definition |-> Missing],
    context |-> [raised |-> FALSE, code |-> <<"1A00">>], sim |-> m] : m \in sims}

InvalidCands ==
  {[title |-> t, id |-> GoodId,
    details |-> [raised |-> FALSE, definition |-> Missing],
    context |-> [raised |-> FALSE, code |-> <<"1A00">>], sim |-> 0] :
      t \in {Missing, <<" ">>}}
  \cup
  {[title |-> GoodTitle, id |-> d,
    details |-> [raised |-> FALSE, definition |-> Missing],
    context |-> [raised |-> FALSE, code |-> <<"1A00">>], sim |-> 0] :
      d \in {Missing, <<"entity", "">>}}

SearchResponses(pool, n) ==
  {[raised |-> TRUE, has_entities |-> FALSE, destinationEntities |-> <<>>],
   [raised |-> FALSE, has_entities |-> FALSE, destinationEntities |-> <<>>]}
  \cup
  {[raised |-> FALSE, has_entities |-> TRUE, destinationEntities |-> cs] :
      cs \in SeqsUpTo(pool, n)}

BatchSims == {50000, 100000}

\* candidates of the batch runs: a blank title, and a retained candidate
\* whose details fail, succeed with a code, or succeed without a code
BatchCands ==
  {c \in InvalidCands : c.title = <<" ">>}
  \cup
  {c \in ValidCands({DefText}, BatchSims) :
      c.details.raised \/ ~c.context.raised}

\* ---------------------------------------------------------------- state
VARIABLES
  nlp,               \* module-level language model: "unloaded", "loaded", "none"
  csv_exists,        \* AYURVEDA_CSV_FILE.exists()
  csv_rows,          \* rows of the source file
  artifact,          \* MAPPING_FILE: [exists, rows]
  pc,                \* position of create_mapping_file
  error,             \* exception that left create_mapping_file, or "none"
  namaste_concepts, existing_mappings, needs_mapping,
  i,                 \* 1-based index of the running loop
  final_mappings,
  suggestions,       \* last value returned by suggest_mappings
  log,               \* messages printed, with the concept they are about
  calls,             \* calls to the lookup client, sleeps and saves, in order
  summary,           \* counts printed by the summary step
  fn, arg, ret,      \* a single function applied to an argument
  client             \* the IcdApiClient object and its request in flight

vars == <<nlp, csv_exists, csv_rows, artifact, pc, error, namaste_concepts,
          existing_mappings, needs_mapping, i, final_mappings, suggestions,
          log, calls, summary, fn, arg, ret, client>>

batchVars == <<nlp, csv_exists, csv_rows, artifact, pc, error, namaste_concepts,
               existing_mappings, needs_mapping, i, final_mappings, suggestions,
               log, calls, summary>>

\* icd_client: timeouts passed to requests; NoTimeout is an absent timeout
CheckTimeout == 3
GetTimeout == 30
NoTimeout == 0
DefaultExpiresIn == 60
SafetyMargin == 1

NoToken == 0
NoExpiry == -1

NoRequest ==
  [kind |-> "none", timeout |-> NoTimeout, bearer |-> FALSE, token |-> NoToken]

\* the object before IcdApiClient(...) is evaluated
NoClient ==
  [ pc            |-> "new",
    active        |-> "none",
    access_token  |-> NoToken,
    token_expires |-> NoExpiry,
    now           |-> 0,
    op            |-> "none",
    req           |-> NoRequest,
    last          |-> "none",
    issued        |-> 0,
    \* what the construction and the last token request were answered
    check_status  |-> "none",
    id_set        |-> FALSE,
    secret_set    |-> FALSE,
    refreshed     |-> FALSE,
    granted_at    |-> 0,
    expires_in    |-> 0 ]

NoSummary == [total |-> -1, existing |-> -1, generated |-> -1]
AbsentFile == [exists |-> FALSE, rows |-> <<>>]
StaleRecord ==
  [ namaste_code |-> <<"Z">>, namaste_term |-> <<"old">>, icd_code |-> <<"S", "R", "Z">>,
    icd_term |-> <<"old">>, equivalence |-> "equivalent", confidence_score |-> 1000000,
    mapping_source |-> "existing", original_namc_code |-> <<"S", "R", "Z">> ]
StaleFile == [exists |-> TRUE, rows |-> <<StaleRecord>>]

Init ==
  /\ nlp = "unloaded"
  /\ \/ csv_exists = FALSE /\ csv_rows = <<>>
     \/ csv_exists = TRUE /\ csv_rows \in CsvFiles
  /\ artifact \in {AbsentFile, StaleFile}
  /\ pc = "import"
  /\ error = "none"
  /\ namaste_concepts = <<>>
  /\ existing_mappings = <<>>
  /\ needs_mapping = <<>>
  /\ i = 0
  /\ final_mappings = <<>>
  /\ suggestions = <<>>
  /\ log = <<>>
  /\ calls = <<>>
  /\ summary = NoSummary
  /\ fn = "create_mapping_file"
  /\ arg = <<>>
  /\ ret = <<>>
  /\ client = NoClient

\* import of mapping_algorithm: spacy.load succeeds, or OSError leaves nlp None
ImportModule ==
  /\ pc = "import"
  /\ nlp' \in {"loaded", "none"}
  /\ pc' = "start"
  /\ UNCHANGED <<csv_exists, csv_rows, artifact, error, namaste_concepts,
                 existing_mappings, needs_mapping, i, final_mappings,
                 suggestions, log, calls, summary, fn, arg, ret, client>>

\* variant: the save follows the first loop
LoopPcSaveAfterExisting(st, k, existing, needs) ==
  IF st = "existing" /\ k <= Len(existing) THEN "existing"
  ELSE IF st = "generate" /\ k <= Len(needs) THEN "generate"
  ELSE "save"

\* where the function stands when the loop at index k of stage st is entered
LoopPc(st, k, existing, needs) ==
  IF st = "existing" /\ k <= Len(existing) THEN "existing"
  ELSE IF st = "existing" /\ Len(needs) >= 1 THEN "generate"
  ELSE IF st = "generate" /\ k <= Len(needs) THEN "generate"
  ELSE "save"

LoopIndex(st, k, existing, needs) ==
  IF st = "existing" /\ k > Len(existing) THEN 1 ELSE k

\* variant: the constructor accepts a missing language model
SuggesterInitLenient(nlp_state) == FALSE

\* MappingSuggester.__init__: raises RuntimeError when nlp is None
SuggesterInitRaises(nlp_state) == nlp_state = "none"

\* create_mapping_file up to the first loop: MappingSuggester(icd_client),
\* load_namaste_concepts_from_csv, the two list comprehensions
Start ==
  /\ pc = "start"
  /\ IF SuggesterInitRaises(nlp)
     THEN /\ pc' = "raised"
          /\ error' = "RuntimeError"
          /\ UNCHANGED <<namaste_concepts, existing_mappings, needs_mapping, i>>
     ELSE LET concepts == load_namaste_concepts_from_csv(csv_exists, csv_rows)
              existing == SelectSeqBy(concepts, TRUE)
              needs == SelectSeqBy(concepts, FALSE)
          IN  IF concepts = <<>>
              THEN /\ pc' = "aborted"
                   /\ UNCHANGED <<error, namaste_concepts, existing_mappings,
                                  needs_mapping, i>>
              ELSE /\ namaste_concepts' = concepts
                   /\ existing_mappings' = existing
                   /\ needs_mapping' = needs
                   /\ pc' = LoopPc("existing", 1, existing, needs)
                   /\ i' = 1
                   /\ UNCHANGED error
  /\ UNCHANGED <<nlp, csv_exists, csv_rows, artifact, final_mappings,
                 suggestions, log, calls, summary, fn, arg, ret, client>>

\* one iteration of the loop over existing_mappings
ProcessExisting ==
  /\ pc = "existing"
  /\ i <= Len(existing_mappings)
  /\ \E lookup \in TermLookups :
       LET concept == existing_mappings[i]
           icd_term == get_icd_term_for_existing_mapping(lookup)
       IN  /\ final_mappings' = Append(final_mappings, ExistingRecord(concept, icd_term))
           /\ log' = IF TermLookupFailed(lookup)
                     THEN Append(log, [ev |-> "term_lookup_failed", code |-> concept.code])
                     ELSE log
           /\ calls' = calls \o Events(TermLookupCalls(lookup) \o <<"sleep">>,
                                        concept.code)
  /\ pc' = LoopPc("existing", i + 1, existing_mappings, needs_mapping)
  /\ i' = LoopIndex("existing", i + 1, existing_mappings, needs_mapping)
  /\ UNCHANGED <<nlp, csv_exists, csv_rows, artifact, error, namaste_concepts,
                 existing_mappings, needs_mapping, suggestions, summary,
                 fn, arg, ret, client>>

\* one iteration of the loop over needs_mapping
GenerateStep ==
  /\ pc = "generate"
  /\ i <= Len(needs_mapping)
  /\ LET concept == needs_mapping[i]
     IN  \/ \* concept['term'].strip() on a float
            /\ concept.term = NaN
            /\ pc' = "raised"
            /\ error' = "AttributeError"
            /\ UNCHANGED <<i, final_mappings, suggestions, log, calls>>
         \/ \* continue
            /\ concept.term # NaN
            /\ Strip(concept.term) = <<>>
            /\ pc' = LoopPc("generate", i + 1, existing_mappings, needs_mapping)
            /\ i' = i + 1
            /\ UNCHANGED <<error, final_mappings, suggestions, log, calls>>
         \/ /\ concept.term # NaN
            /\ Strip(concept.term) # <<>>
            /\ \E resp \in SearchResponses(BatchCands, MaxCands) :
                 LET r == suggest_mappings(concept.term, concept.definition,
                                           resp, DefaultTopN)
                     found == IF r.no_candidates
                              THEN <<[ev |-> "no_candidates", code |-> concept.code]>>
                              ELSE <<>>
                 IN  IF r.raised
                     THEN /\ pc' = "raised"
                          /\ error' = IF resp.raised THEN "HTTPException" ELSE "TypeError"
                          /\ calls' = calls \o Events(OpsOf(r.calls), concept.code)
                          /\ UNCHANGED <<i, final_mappings, suggestions, log>>
                     ELSE /\ suggestions' = r.result
                          /\ IF r.result # <<>>
                             THEN /\ final_mappings' =
                                       Append(final_mappings,
                                              GeneratedRecord(concept, r.result[1]))
                                  /\ log' = log \o found
                                              \o <<[ev |-> "mapped", code |-> concept.code]>>
                             ELSE /\ final_mappings' = final_mappings
                                  /\ log' = log \o found
                                              \o <<[ev |-> "no_mapping", code |-> concept.code]>>
                          /\ calls' = calls \o Events(OpsOf(r.calls) \o <<"sleep">>,
                                                       concept.code)
                          /\ pc' = LoopPc("generate", i + 1, existing_mappings, needs_mapping)
                          /\ i' = i + 1
                          /\ UNCHANGED error
  /\ UNCHANGED <<nlp, csv_exists, csv_rows, artifact, namaste_concepts,
                 existing_mappings, needs_mapping, summary, fn, arg, ret, client>>

\* save_mappings_to_csv(final_mappings) and the summary prints
SaveAndSummarise ==
  /\ pc = "save"
  /\ artifact' = save_mappings_to_csv(final_mappings, artifact)
  /\ summary' = Summary(final_mappings)
  /\ calls' = Append(calls, [op |-> "save_mappings_to_csv", code |-> <<>>])
  /\ pc' = "done"
  /\ UNCHANGED <<nlp, csv_exists, csv_rows, error, namaste_concepts,
                 existing_mappings, needs_mapping, i, final_mappings,
                 suggestions, log, fn, arg, ret, client>>

Next ==
  \/ ImportModule
  \/ Start
  \/ ProcessExisting
  \/ GenerateStep
  \/ SaveAndSummarise

Spec == Init /\ [][Next]_vars

\* ------------------------------------------- single-function behaviours
\* the batch variables while a single function is applied
Idle ==
  /\ nlp = "loaded"
  /\ csv_exists = FALSE
  /\ csv_rows = <<>>
  /\ artifact = AbsentFile
  /\ pc = "call"
  /\ error = "none"
  /\ namaste_concepts = <<>>
  /\ existing_mappings = <<>>
  /\ needs_mapping = <<>>
  /\ i = 0
  /\ final_mappings = <<>>
  /\ suggestions = <<>>
  /\ log = <<>>
  /\ calls = <<>>
  /\ summary = NoSummary

\* scores in units of 1e-6: a grid over [-0.1, 1.1] and the neighbours of
\* the three thresholds
ScoreInputs ==
  {k * 10000 : k \in (-10)..MaxScoreSteps}
  \cup {t + d : t \in {ThresholdEquivalent, ThresholdEqual, ThresholdWider},
                d \in {-1, 0, 1}}

InitEquiv ==
  /\ Idle
  /\ fn = "determine_equivalence"
  /\ arg \in {<<x>> : x \in ScoreInputs}
  /\ ret = <<>>
  /\ client = NoClient

ApplyEquivalence ==
  /\ fn = "determine_equivalence"
  /\ ret = <<>>
  /\ ret' = <<determine_equivalence(arg[1])>>
  /\ UNCHANGED <<batchVars, fn, arg, client>>

NextEquiv == ApplyEquivalence

SpecEquiv == InitEquiv /\ [][NextEquiv]_vars

\* candidates of the ranking runs: combined scores 0.65, 1.0 and 0.7 for a
\* definition DefText, and a candidate without id
SuggestCands ==
  {c \in ValidCands({DefText}, BatchSims) :
      ~c.details.raised /\ c.context.code # Missing /\ ~c.context.raised}
  \cup
  {c \in ValidCands({DefText}, {100000}) : c.details.raised}
  \cup
  {c \in InvalidCands : c.id = Missing}

InitSuggest ==
  /\ Idle
  /\ fn = "suggest_mappings"
  /\ arg \in {<<DefText, resp>> :
                resp \in {r \in SearchResponses(SuggestCands, MaxSuggestCands) :
                            r.has_entities}}
  /\ ret = <<>>
  /\ client = NoClient

ApplySuggest ==
  /\ fn = "suggest_mappings"
  /\ ret = <<>>
  /\ ret' = <<suggest_mappings(<<"fever">>, arg[1], arg[2], DefaultTopN)>>
  /\ UNCHANGED <<batchVars, fn, arg, client>>

NextSuggest == ApplySuggest

SpecSuggest == InitSuggest /\ [][NextSuggest]_vars

\* the batch together with single calls of suggest_mappings
NextRank == Next \/ ApplySuggest

SpecRank == (Init \/ InitSuggest) /\ [][NextRank]_vars

\* single calls of suggest_mappings on short search results that mix
\* candidates without title or id with complete ones, beside the batch
SkipCands ==
  InvalidCands
  \cup
  {c \in ValidCands({DefText}, {100000}) : c.details.raised \/ ~c.context.raised}

InitSkip ==
  /\ Idle
  /\ fn = "suggest_mappings"
  /\ arg \in {<<DefText, resp>> :
                resp \in {r \in SearchResponses(SkipCands, MaxSkipCands) :
                            r.has_entities}}
  /\ ret = <<>>
  /\ client = NoClient

NextSkip == Next \/ ApplySuggest

SpecSkip == (Init \/ InitSkip) /\ [][NextSkip]_vars

\* scoring of one retained candidate against a definition
ScoreDefs == {<<>>, DefText, <<"high", " ", "temperature">>, <<"the">>}
ScoreSims == {-20000, 0, 50000, 78565, 100000}
ScoreCands ==
  ValidCands({Missing, <<>>, DefText, <<"the", " ", "Temperature">>}, ScoreSims)

InitScore ==
  /\ Idle
  /\ fn = "score_candidate"
  /\ arg \in {<<d, c>> : d \in ScoreDefs, c \in ScoreCands}
  /\ ret = <<>>
  /\ client = NoClient

ApplyScore ==
  /\ fn = "score_candidate"
  /\ ret = <<>>
  /\ ret' = <<ScoredEntry(arg[1], arg[2], 1)>>
  /\ UNCHANGED <<batchVars, fn, arg, client>>

NextScore == ApplyScore

SpecScore == InitScore /\ [][NextScore]_vars

\* the loader applied to one row whose code field is any short string
CodeAlphabet == {"S", "R", "Q", "X", " ", "(", ")"}
CodeInputs == {NaN} \cup SeqsUpTo(CodeAlphabet, MaxCodeLen)

InitExtract ==
  /\ Idle
  /\ fn = "extract_icd_mapping"
  /\ arg \in {<<code>> : code \in CodeInputs}
  /\ ret = <<>>
  /\ client = NoClient

ApplyExtract ==
  /\ fn = "extract_icd_mapping"
  /\ ret = <<>>
  /\ ret' = <<LoadConcept([NAMC_CODE |-> arg[1], NAMC_term |-> <<"fever">>,
                            Long_definition |-> DefText])>>
  /\ UNCHANGED <<batchVars, fn, arg, client>>

NextExtract == ApplyExtract

SpecExtract == InitExtract /\ [][NextExtract]_vars

\* the record built from the top suggestion, for every score of the grid
\* and for the score of similarity 0.78565 with keyword score 1.0
RecordScores == ScoreInputs \cup {final_score(78565, 100000)}

RecordConcept ==
  LoadConcept([NAMC_CODE |-> <<"A">>, NAMC_term |-> <<"fever">>,
               Long_definition |-> DefText])

InitRecord ==
  /\ Idle
  /\ fn = "generated_record"
  /\ arg \in {<<score>> : score \in RecordScores}
  /\ ret = <<>>
  /\ client = NoClient

ApplyRecord ==
  /\ fn = "generated_record"
  /\ ret = <<>>
  /\ ret' = <<GeneratedRecord(RecordConcept,
                              [icd_code |-> <<"1A00">>, icd_term |-> GoodTitle,
                               score |-> arg[1]])>>
  /\ UNCHANGED <<batchVars, fn, arg, client>>

NextRecord == ApplyRecord

SpecRecord == InitRecord /\ [][NextRecord]_vars

\* ------------------------------------------------ icd_client: requests
ClientOps == {"search_conditions", "get_entity_details"}
ServerAnswers == {"ok", "error", "hang"}
CheckAnswers == {"200", "401", "500", "error", "hang"}
ExpiresIns == {1, 2, DefaultExpiresIn}

\* timeout argument of the requests call behind an operation
TimeoutOf(op) == IF op = "get_entity_details" THEN NoTimeout ELSE GetTimeout

HttpRequest(op, bearer, token) ==
  [kind |-> op, timeout |-> TimeoutOf(op), bearer |-> bearer, token |-> token]

\* what the caller gets from a request: a request without timeout never
\* returns from a server that does not answer, one with timeout raises
Outcome(req, server) ==
  IF server # "hang" THEN server
  ELSE IF req.timeout = NoTimeout THEN "blocked" ELSE "error"

\* variant: a token is requested for every call
NeedsTokenAlways(c) == TRUE

\* _get_access_token: the cached token is returned while it is valid
NeedsToken(c) ==
  ~(c.access_token # NoToken /\ c.token_expires # NoExpiry /\ c.now < c.token_expires)

\* variant: any answer of the local server selects it
LocalAnswerAny(status) == status \in {"200", "401", "500"}

\* response.status_code in [200, 401]
LocalAnswer(status) == status \in {"200", "401"}

InitClient ==
  /\ Idle
  /\ fn = "IcdApiClient"
  /\ arg = <<>>
  /\ ret = <<>>
  /\ client = NoClient

\* _get_active_server: the check request to the local server
IssueCheck ==
  /\ fn = "IcdApiClient"
  /\ client.pc = "new"
  /\ client' = [client EXCEPT !.pc = "check",
                               !.req = [kind |-> "check", timeout |-> CheckTimeout,
                                        bearer |-> FALSE, token |-> NoToken]]
  /\ UNCHANGED <<batchVars, fn, arg, ret>>

\* _get_active_server after the check request: the local server, or the
\* global one when neither credential is the placeholder
CompleteCheck ==
  /\ fn = "IcdApiClient"
  /\ client.pc = "check"
  /\ \E status \in CheckAnswers, id_set \in BOOLEAN, secret_set \in BOOLEAN :
       LET answered == [client EXCEPT !.check_status = status, !.id_set = id_set,
                                      !.secret_set = secret_set, !.req = NoRequest]
       IN  client' =
             IF LocalAnswer(status)
             THEN [answered EXCEPT !.pc = "idle", !.active = "local"]
             ELSE IF ~id_set \/ ~secret_set
             THEN [answered EXCEPT !.pc = "failed", !.last = "HTTPException"]
             ELSE [answered EXCEPT !.pc = "idle", !.active = "global"]
  /\ UNCHANGED <<batchVars, fn, arg, ret>>

\* get / get_entity_details up to the first request they issue
BeginCall ==
  /\ fn = "IcdApiClient"
  /\ client.pc = "idle"
  /\ (client.active = "global" /\ NeedsToken(client)) => client.issued < MaxTokens
  /\ \E op \in ClientOps :
       client' =
         IF client.active = "global" /\ NeedsToken(client)
         THEN [client EXCEPT !.pc = "token", !.op = op, !.last = "none",
                             !.refreshed = FALSE,
                             !.req = [kind |-> "token", timeout |-> NoTimeout,
                                      bearer |-> FALSE, token |-> NoToken]]
         ELSE [client EXCEPT !.pc = "http", !.op = op, !.last = "none",
                             !.refreshed = FALSE,
                             !.req = IF client.active = "global"
                                     THEN HttpRequest(op, TRUE, client.access_token)
                                     ELSE HttpRequest(op, FALSE, NoToken)]
  /\ UNCHANGED <<batchVars, fn, arg, ret>>

\* _get_access_token after requests.post
CompleteToken ==
  /\ fn = "IcdApiClient"
  /\ client.pc = "token"
  /\ \E server \in ServerAnswers, expires_in \in ExpiresIns :
       LET outcome == Outcome(client.req, server)
       IN  client' =
             IF outcome = "ok"
             THEN [client EXCEPT !.pc = "http",
                                 !.access_token = client.issued + 1,
                                 !.issued = client.issued + 1,
                                 !.token_expires = client.now + expires_in - SafetyMargin,
                                 !.refreshed = TRUE,
                                 !.granted_at = client.now,
                                 !.expires_in = expires_in,
                                 !.req = HttpRequest(client.op, TRUE, client.issued + 1)]
             ELSE IF outcome = "error"
             THEN [client EXCEPT !.pc = "idle", !.op = "none", !.req = NoRequest,
                                 !.last = "HTTPException"]
             ELSE [client EXCEPT !.pc = "blocked"]
  /\ UNCHANGED <<batchVars, fn, arg, ret>>

\* the requests.get of get / get_entity_details returns or raises
CompleteHttp ==
  /\ fn = "IcdApiClient"
  /\ client.pc = "http"
  /\ \E server \in ServerAnswers :
       LET outcome == Outcome(client.req, server)
       IN  client' =
             IF outcome = "ok"
             THEN [client EXCEPT !.pc = "idle", !.op = "none", !.req = NoRequest,
                                 !.last = "ok"]
             ELSE IF outcome = "error"
             THEN [client EXCEPT !.pc = "idle", !.op = "none", !.req = NoRequest,
                                 !.last = "HTTPException"]
             ELSE [client EXCEPT !.pc = "blocked"]
  /\ UNCHANGED <<batchVars, fn, arg, ret>>

\* datetime.now() advances between calls and while a request is in flight
Tick ==
  /\ fn = "IcdApiClient"
  /\ client.pc \in {"idle", "token", "http"}
  /\ client.now < MaxTime
  /\ client' = [client EXCEPT !.now = client.now + 1]
  /\ UNCHANGED <<batchVars, fn, arg, ret>>

NextClient ==
  \/ IssueCheck
  \/ CompleteCheck
  \/ BeginCall
  \/ CompleteToken
  \/ CompleteHttp
  \/ Tick

SpecClient == InitClient /\ [][NextClient]_vars

\* ------------------------------------- ayurveda_code_system: generator
\* str(x) of a cell: a missing value prints as "nan"
StrOf(x) == IF x = NaN THEN <<"nan">> ELSE x

\* value is None or pd.isna(value) or str(value).strip() == ''
BlankCell(value) == value = Missing \/ value = NaN \/ Strip(StrOf(value)) = <<>>

LongCodeLimit == 50

\* the dictionary built for a row that passed both checks
ConceptData(row) ==
  LET definition_value == row.Long_definition
      has_definition == definition_value # Missing
                        /\ Strip(StrOf(definition_value)) # <<>>
  IN  [ code           |-> Strip(StrOf(row.NAMC_CODE)),
        display        |-> Strip(StrOf(row.NAMC_term)),
        has_definition |-> has_definition,
        definition     |-> IF has_definition THEN Strip(StrOf(definition_value))
                           ELSE <<>> ]

\* the loop over df.iterrows(), up to and including row n; row_errors of a
\* rejected row is dropped by the continue and is empty at errors.extend
RECURSIVE ValidateRows(_, _)
ValidateRows(rows, n) ==
  IF n = 0 THEN [errors |-> <<>>, warnings |-> <<>>, valid_concepts |-> <<>>]
  ELSE LET before == ValidateRows(rows, n - 1)
           row == rows[n]
       IN  IF BlankCell(row.NAMC_CODE) THEN before
           ELSE IF BlankCell(row.NAMC_term) THEN before
           ELSE [ errors         |-> before.errors \o <<>>,
                  warnings       |-> IF Len(Strip(StrOf(row.NAMC_CODE))) > LongCodeLimit
                                     THEN Append(before.warnings, n)
                                     ELSE before.warnings,
                  valid_concepts |-> Append(before.valid_concepts, ConceptData(row)) ]

\* df: [exists, readable, has_code, has_term, rows]
validate_csv_data(df) ==
  IF ~df.has_code \/ ~df.has_term
  THEN [is_valid |-> FALSE, errors |-> <<"Missing required columns">>,
        warnings |-> <<>>, valid_concepts |-> <<>>]
  ELSE IF df.rows = <<>>
  THEN [is_valid |-> FALSE, errors |-> <<"CSV file is empty">>,
        warnings |-> <<>>, valid_concepts |-> <<>>]
  ELSE LET r == ValidateRows(df.rows, Len(df.rows))
       IN  [is_valid |-> r.errors = <<>> /\ Len(r.valid_concepts) > 0,
            errors |-> r.errors, warnings |-> r.warnings,
            valid_concepts |-> r.valid_concepts]

NoOutput == [exists |-> FALSE, concept |-> <<>>]
NoValidation ==
  [is_valid |-> FALSE, errors |-> <<"not run">>, warnings |-> <<>>,
   valid_concepts |-> <<>>]

\* variant: the code system is saved whatever the validation says
generate_codesystem_unchecked(df, save_fails) ==
  LET v == validate_csv_data(df)
  IN  [success |-> TRUE, validation |-> v,
       output |-> [exists |-> TRUE, concept |-> v.valid_concepts]]

\* generate_codesystem: load, validate, build, save; every exception is
\* caught and gives False
generate_codesystem(df, save_fails) ==
  IF ~df.exists \/ ~df.readable
  THEN [success |-> FALSE, validation |-> NoValidation, output |-> NoOutput]
  ELSE LET v == validate_csv_data(df)
       IN  IF ~v.is_valid \/ v.valid_concepts = <<>>
           THEN [success |-> FALSE, validation |-> v, output |-> NoOutput]
           ELSE IF save_fails
           THEN [success |-> FALSE, validation |-> v, output |-> NoOutput]
           ELSE [success |-> TRUE, validation |-> v,
                 output |-> [exists |-> TRUE, concept |-> v.valid_concepts]]

\* rows of a source file: every combination of code and term cell, and a
\* complete row with a missing or blank definition
SourceRowPool(r) ==
  {[NAMC_CODE |-> c, NAMC_term |-> t, Long_definition |-> DefText] :
      c \in {NaN, <<" ">>, <<" ", IdChar(r)>>}, t \in {NaN, <<" ">>, <<"fever", " ">>}}
  \cup
  {[NAMC_CODE |-> <<IdChar(r)>>, NAMC_term |-> <<"fever">>, Long_definition |-> d] :
      d \in {NaN, <<" ">>}}

SourceRows ==
  UNION {{rows \in [1..n -> UNION {SourceRowPool(r) : r \in 1..n}] :
            \A r \in 1..n : rows[r] \in SourceRowPool(r)} : n \in 0..MaxRows}

DataFrames ==
  {[exists |-> TRUE, readable |-> TRUE, has_code |-> TRUE, has_term |-> TRUE,
    rows |-> rows] : rows \in SourceRows}
  \cup
  {[exists |-> e, readable |-> r, has_code |-> c, has_term |-> t, rows |-> <<>>] :
      e \in BOOLEAN, r \in BOOLEAN, c \in BOOLEAN, t \in BOOLEAN}

InitGenerate ==
  /\ Idle
  /\ fn = "generate_codesystem"
  /\ arg \in {<<df, save_fails>> : df \in DataFrames, save_fails \in BOOLEAN}
  /\ ret = <<>>
  /\ client = NoClient

ApplyGenerate ==
  /\ fn = "generate_codesystem"
  /\ ret = <<>>
  /\ ret' = <<generate_codesystem(arg[1], arg[2])>>
  /\ UNCHANGED <<batchVars, fn, arg, client>>

\* the generator beside the batch
NextLoad == Next \/ ApplyGenerate

SpecLoad == (Init \/ InitGenerate) /\ [][NextLoad]_vars

\* ------------------------------------------- main: search_by_symptoms
\* ICDSearchResult(code=..., title=..., definition=..., uri=...)
SearchResult(entity) ==
  [ code       |-> IF entity.theCode = Missing THEN NoneVal ELSE entity.theCode,
    title      |-> RowGet(entity.title),
    definition |-> IF entity.definition = Missing THEN NoneVal ELSE entity.definition,
    uri        |-> RowGet(entity.id) ]

\* the model validation raises: title is declared str and is None
ResultRaises(entity) == entity.title = NoneVal

\* the loop over the entities of one symptom, from entity k on; the first
\* entity that cannot be built ends the loop through the except branch
RECURSIVE AddEntities(_, _, _)
AddEntities(found, entities, k) ==
  IF k > Len(entities) THEN found
  ELSE IF ResultRaises(entities[k]) THEN found
  ELSE LET suggestion == SearchResult(entities[k])
       IN  IF suggestion \in Range(found)
           THEN AddEntities(found, entities, k + 1)
           ELSE AddEntities(Append(found, suggestion), entities, k + 1)

\* variant: the first failed search ends the loop over the symptoms
RECURSIVE SymptomLoopStopping(_, _)
SymptomLoopStopping(answers, n) ==
  IF n = 0 THEN <<>>
  ELSE IF \E k \in 1..n : answers[k].raised
       THEN SymptomLoopStopping(answers, n - 1)
       ELSE AddEntities(SymptomLoopStopping(answers, n - 1), answers[n].entities, 1)

\* the loop over request.symptoms, up to and including symptom n
RECURSIVE SymptomLoop(_, _)
SymptomLoop(answers, n) ==
  IF n = 0 THEN <<>>
  ELSE LET before == SymptomLoop(answers, n - 1)
       IN  IF answers[n].raised THEN before
           ELSE AddEntities(before, answers[n].entities, 1)

\* answers[k] is what search_conditions gives for request.symptoms[k]
search_by_symptoms(answers, limit) ==
  LET found == SymptomLoop(answers, Len(answers))
      unique_suggestions == Slice(found, limit)
  IN  [ suggested_conditions |-> unique_suggestions,
        total_found          |-> Len(unique_suggestions) ]

EntityPool ==
  {[theCode |-> <<"1A00">>, title |-> GoodTitle, definition |-> DefText, id |-> Missing],
   [theCode |-> Missing, title |-> <<"Fever">>, definition |-> Missing, id |-> <<"X1">>],
   [theCode |-> <<"1A00">>, title |-> NoneVal, definition |-> DefText, id |-> Missing]}

SymptomAnswers ==
  {[raised |-> TRUE, entities |-> <<>>]}
  \cup {[raised |-> FALSE, entities |-> es] : es \in SeqsUpTo(EntityPool, MaxEntities)}

InitSymptoms ==
  /\ Idle
  /\ fn = "search_by_symptoms"
  /\ arg \in {<<answers, limit>> :
                answers \in SeqsUpTo(SymptomAnswers, MaxSymptoms), limit \in 1..MaxLimit}
  /\ ret = <<>>
  /\ client = NoClient

ApplySymptoms ==
  /\ fn = "search_by_symptoms"
  /\ ret = <<>>
  /\ ret' = <<search_by_symptoms(arg[1], arg[2])>>
  /\ UNCHANGED <<batchVars, fn, arg, client>>

NextSymptoms == ApplySymptoms

SpecSymptoms == InitSymptoms /\ [][NextSymptoms]_vars

\* ----------------------------------------------------------- properties
\* number of concepts of existing_mappings whose iteration has finished
ExistingDone == IF pc = "existing" THEN i - 1 ELSE Len(existing_mappings)

Logged(ev, code) == [ev |-> ev, code |-> code] \in Range(log)

RecordsOf(code) ==
  {k \in 1..Len(final_mappings) : final_mappings[k].namaste_code = code}

\* C1: every concept with an existing mapping gets a record with confidence
\* 1.0, equivalence "equivalent", source "existing" and its own existing code
\* as icd_code, whatever the lookup client answered.
C1_ExistingRecordFixed ==
  /\ Len(final_mappings) >= ExistingDone
  /\ \A c \in Range(namaste_concepts) :
       c.has_existing_mapping => c \in Range(existing_mappings)
  /\ \A k \in 1..ExistingDone :
       LET c == existing_mappings[k]
           m == final_mappings[k]
       IN  /\ c.has_existing_mapping
           /\ m.namaste_code = c.code
           /\ m.confidence_score = 1000000
           /\ m.equivalence = "equivalent"
           /\ m.mapping_source = "existing"
           /\ m.icd_code = c.existing_icd_mapping

\* a finished run in which one term lookup failed and another succeeded
C1_Witness ==
  /\ pc = "done"
  /\ Len(existing_mappings) = 2
  /\ final_mappings[1].icd_term = UnknownIcdTerm
  /\ final_mappings[2].icd_term = GoodTitle
  /\ final_mappings[2].icd_code = <<"S", "R", "B">>

\* C2: a search call that raises inside suggest_mappings is local: the
\* exception does not leave create_mapping_file.
C2_SearchFailureIsLocal == ~(pc = "raised" /\ error = "HTTPException")

\* C3: once at least one concept is loaded and the scorer is constructed, a
\* run ends only at the summary step, with the summary printed and the
\* artifact holding the records of the run.
C3_RunEndsWithSummary ==
  /\ (pc = "raised" => error = "RuntimeError")
  /\ (pc = "done" =>
        /\ summary = Summary(final_mappings)
        /\ artifact = [exists |-> TRUE, rows |-> final_mappings])

\* C4: when the term lookup of an existing mapping fails, the record is
\* still appended, with source "existing", confidence 1.0 and the
\* placeholder term, and the batch is not stopped by the failure.
C4_FailedLookupKeepsRecord ==
  /\ \A k \in 1..ExistingDone :
       LET c == existing_mappings[k]
       IN  Logged("term_lookup_failed", c.code) =>
             /\ Len(final_mappings) >= k
             /\ final_mappings[k].namaste_code = c.code
             /\ final_mappings[k].icd_term = UnknownIcdTerm
             /\ final_mappings[k].mapping_source = "existing"
             /\ final_mappings[k].confidence_score = 1000000
  /\ \A k \in 1..Len(existing_mappings) :
       Logged("term_lookup_failed", existing_mappings[k].code) => k <= ExistingDone
  /\ (pc = "raised" /\ error # "RuntimeError" => ExistingDone = Len(existing_mappings))

\* the first term lookup failed and the run went on to the end
C4_Witness ==
  /\ pc = "done"
  /\ Len(existing_mappings) >= 1
  /\ Logged("term_lookup_failed", existing_mappings[1].code)
  /\ final_mappings[1].icd_term = UnknownIcdTerm
  /\ Len(final_mappings) = 2

EmptyTerm(c) == c.term # NaN /\ Strip(c.term) = <<>>

\* C5: a concept whose term is empty or whitespace-only never has a record
\* in final_mappings.
C5_EmptyTermNoRecord ==
  \A c \in Range(namaste_concepts) : EmptyTerm(c) => RecordsOf(c.code) = {}

Resolvable(c) ==
  /\ c.term # NaN
  /\ Strip(c.term) # <<>>
  /\ (c.has_existing_mapping \/ Logged("mapped", c.code))

\* C6: after a completed run final_mappings holds exactly one record for
\* each resolvable concept and none for any other concept.
C6_OneRecordPerResolvable ==
  pc = "done" =>
    \A c \in Range(namaste_concepts) :
      Cardinality(RecordsOf(c.code)) = IF Resolvable(c) THEN 1 ELSE 0

\* C7: when the search returns zero candidates, suggest_mappings returns an
\* empty list without raising, no record is appended for the concept, it is
\* reported as unmapped and the loop goes on with the next concept.
C7_NoCandidatesUnmapped ==
  \A k \in 1..Len(needs_mapping) :
    LET c == needs_mapping[k]
    IN  Logged("no_candidates", c.code) =>
          /\ RecordsOf(c.code) = {}
          /\ Logged("no_mapping", c.code)
          /\ pc \in {"generate", "save", "done", "raised"}
          /\ i > k
          /\ (k < Len(needs_mapping) /\ i = k + 1 => pc \in {"generate", "raised"})
          /\ (k = Len(needs_mapping) => pc \in {"save", "done"})

\* the first of two concepts had no candidates, the second one was mapped
C7_Witness ==
  /\ Len(needs_mapping) = 2
  /\ Logged("no_candidates", needs_mapping[1].code)
  /\ Logged("mapped", needs_mapping[2].code)
  /\ Len(final_mappings) = 1

\* C8: determine_equivalence gives "equivalent" from 0.85, "equal" on
\* [0.75, 0.85), "wider" on [0.60, 0.75) and "relatedto" below 0.60.
C8_EquivalenceTable ==
  (fn = "determine_equivalence" /\ ret # <<>>) =>
    LET score == arg[1]
        out == ret[1]
    IN  /\ (score >= 850000) => out = "equivalent"
        /\ (750000 <= score /\ score < 850000) => out = "equal"
        /\ (600000 <= score /\ score < 750000) => out = "wider"
        /\ (score < 600000) => out = "relatedto"

\* the boundary value 0.75 has been classified
C8_Witness ==
  /\ fn = "determine_equivalence"
  /\ arg = <<750000>>
  /\ ret = <<"equal">>

\* C9: two retained candidates of equal combined score are returned in the
\* order of the search result.
C9_StableTies ==
  (fn = "suggest_mappings" /\ ret # <<>>) =>
    LET res == ret[1].result
    IN  \A a, b \in 1..Len(res) :
          (a < b /\ res[a].score = res[b].score) => res[a].pos < res[b].pos

\* two equal scores were ranked, behind a higher score found later
C9_Witness ==
  /\ fn = "suggest_mappings"
  /\ ret # <<>>
  /\ Len(ret[1].result) >= 3
  /\ ret[1].result[2].score = ret[1].result[3].score
  /\ ret[1].result[1].score > ret[1].result[2].score
  /\ ret[1].result[1].pos > ret[1].result[3].pos

\* C10: the returned list is in non-increasing score order, has at most
\* top_n entries, its first entry is a retained candidate with the highest
\* combined score, and that entry is the one persisted by the batch.
C10_TopIsBest ==
  /\ (fn = "suggest_mappings" /\ ret # <<>>) =>
       LET res == ret[1].result
           cands == Candidates(arg[2])
           kept == {n \in 1..Len(cands) : Retained(cands[n])}
       IN  /\ Len(res) <= 5
           /\ \A a \in 1..(Len(res) - 1) : res[a].score >= res[a + 1].score
           /\ (kept # {} =>
                 /\ res # <<>>
                 /\ res[1].pos \in kept
                 /\ res[1] = ScoredEntry(arg[1], cands[res[1].pos], res[1].pos)
                 /\ \A n \in kept :
                      res[1].score >= ScoredEntry(arg[1], cands[n], n).score)
  /\ (fn = "create_mapping_file" /\ log # <<>> /\ log[Len(log)].ev = "mapped") =>
       /\ suggestions # <<>>
       /\ \A a \in 1..Len(suggestions) : suggestions[1].score >= suggestions[a].score
       /\ final_mappings # <<>>
       /\ LET m == final_mappings[Len(final_mappings)]
          IN  /\ m.namaste_code = log[Len(log)].code
              /\ m.mapping_source = "generated"
              /\ m.icd_code = suggestions[1].icd_code
              /\ m.icd_term = suggestions[1].icd_term
              /\ m.confidence_score = Round4(suggestions[1].score)

\* more than top_n candidates were retained and the best one was not the
\* first of the search result
C10_Witness ==
  /\ fn = "suggest_mappings"
  /\ ret # <<>>
  /\ Len(ret[1].result) = 5
  /\ Cardinality({n \in 1..Len(arg[2].destinationEntities) :
                    Retained(arg[2].destinationEntities[n])}) > 5
  /\ ret[1].result[1].pos = 6
  /\ ret[1].result[1].score > ret[1].result[2].score

\* a candidate takes part in the ranking: it is in the returned list, or the
\* list is full and every returned entry scores at least as much
Ranked(res, n, score) ==
  \/ \E a \in 1..Len(res) : res[a].pos = n /\ res[a].score = score
  \/ Len(res) = DefaultTopN /\ \A a \in 1..Len(res) : res[a].score >= score

\* C11: a retained candidate whose details fetch failed is still scored and
\* ranked, with its own title as its definition, and every retained candidate
\* after it is still looked up and ranked.
C11_FailedDetailsKeepsCandidate ==
  (fn = "suggest_mappings" /\ ret # <<>>) =>
    LET res == ret[1].result
        cands == Candidates(arg[2])
        title(n) == CandTitle(cands[n])
        titleScore(n) ==
          7 * calculate_similarity_score(arg[1], title(n), cands[n].sim)
          + 3 * calculate_keyword_score(arg[1], title(n))
    IN  \A n \in 1..Len(cands) :
          (Retained(cands[n]) /\ cands[n].details.raised) =>
            /\ Ranked(res, n, titleScore(n))
            /\ \A a \in 1..Len(res) :
                 res[a].pos = n => /\ res[a].icd_definition = title(n)
                                   /\ res[a].icd_term = title(n)
            /\ \A m \in (n + 1)..Len(cands) :
                 Retained(cands[m]) =>
                   /\ \E k \in 1..Len(ret[1].calls) :
                        ret[1].calls[k] = [op |-> "get_entity_details", pos |-> m]
                   /\ \/ \E a \in 1..Len(res) : res[a].pos = m
                      \/ Len(res) = DefaultTopN

\* a candidate with failed details is in the returned list under its title,
\* followed in the search result by a candidate whose details were fetched
C11_Witness ==
  /\ fn = "suggest_mappings"
  /\ ret # <<>>
  /\ \E a, b \in 1..Len(ret[1].result) :
       /\ ret[1].result[a].pos < ret[1].result[b].pos
       /\ arg[2].destinationEntities[ret[1].result[a].pos].details.raised
       /\ ret[1].result[a].icd_definition = ret[1].result[a].icd_term
       /\ ~arg[2].destinationEntities[ret[1].result[b].pos].details.raised
       /\ ret[1].result[b].icd_definition # ret[1].result[b].icd_term

\* a candidate without a usable title or id
Skipped(c) ==
  \/ c.title = Missing
  \/ Strip(c.title) = <<>>
  \/ c.id = Missing
  \/ c.id[Len(c.id)] = ""

\* C14: a candidate whose title or id is missing or empty gets no details
\* call and no scored entry; if every candidate is skipped suggest_mappings
\* returns an empty list, and in the batch such a concept has no record and
\* is reported as unmapped.
C14_SkippedCandidates ==
  /\ (fn = "suggest_mappings" /\ ret # <<>>) =>
       LET cands == Candidates(arg[2])
           r == ret[1]
       IN  /\ \A n \in 1..Len(cands) :
                Skipped(cands[n]) =>
                  /\ \A k \in 1..Len(r.calls) : r.calls[k].pos # n
                  /\ \A a \in 1..Len(r.result) : r.result[a].pos # n
           /\ (\A n \in 1..Len(cands) : Skipped(cands[n])) =>
                /\ ~r.raised
                /\ r.result = <<>>
                /\ r.calls = <<[op |-> "search_conditions", pos |-> 0]>>
  /\ (fn = "create_mapping_file") =>
       \A c \in Range(needs_mapping) :
         (Logged("no_mapping", c.code) /\ ~Logged("no_candidates", c.code)) =>
           /\ RecordsOf(c.code) = {}
           /\ \A k \in 1..Len(calls) :
                calls[k].code = c.code => calls[k].op \in {"search_conditions", "sleep"}

\* a search result of three candidates, the first without title and the
\* third without id, gave one scored entry, for the second
C14_Witness ==
  /\ fn = "suggest_mappings"
  /\ ret # <<>>
  /\ Len(arg[2].destinationEntities) = 3
  /\ arg[2].destinationEntities[1].title = Missing
  /\ arg[2].destinationEntities[3].id = Missing
  /\ Len(ret[1].result) = 1
  /\ ret[1].result[1].pos = 2
  /\ ret[1].calls = <<[op |-> "search_conditions", pos |-> 0],
                      [op |-> "get_entity_details", pos |-> 2]>>

\* the operations recorded for a concept, in order
OpsFor(code) ==
  {calls[k].op : k \in {j \in 1..Len(calls) : calls[j].code = code}}

\* C15: for a concept with an existing mapping the term is resolved with a
\* details lookup only: no search operation of the lookup client and no
\* call of the suggester is made for that concept.
C15_DetailsLookupOnly ==
  \A c \in Range(existing_mappings) :
    OpsFor(c.code) \subseteq {"get_entity_details", "sleep"}

SaveEvents == {k \in 1..Len(calls) : calls[k].op = "save_mappings_to_csv"}

C17_ArtifactReplaced ==
  pc = "done" => artifact.rows = final_mappings

\* a call to the external lookup service
IsLookup(e) ==
  e.op \in {"search_conditions", "search_code", "get_entity_details",
            "get_entity_context"}

\* C18: between any two consecutive calls to the lookup service during a
\* batch run there is a pacing delay.
C18_PacedCalls ==
  \A k \in 1..(Len(calls) - 1) :
    ~(IsLookup(calls[k]) /\ IsLookup(calls[k + 1]))

\* C19: every request to the lookup service (search, entity details, token
\* acquisition) carries a bounded timeout, and no call of the client stays
\* blocked on a server that does not answer.
C19_BoundedTimeouts ==
  /\ client.req.kind # "none" => client.req.timeout > 0
  /\ client.pc # "blocked"

\* the part of the code field before the first "(", trimmed
BeforeParen(code) ==
  LET opens == {k \in 1..Len(code) : code[k] = "("}
      stop == IF opens = {} THEN Len(code) + 1
              ELSE CHOOSE k \in opens : \A j \in opens : k <= j
  IN  Strip(SubSeq(code, 1, stop - 1))

Recognised(code) ==
  /\ code # NaN
  /\ Len(BeforeParen(code)) >= 2
  /\ BeforeParen(code)[1] = "S"
  /\ BeforeParen(code)[2] \in {"R", "K", "M", "L", "N", "P", "Q"}

\* C20: extract_icd_mapping returns the trimmed part of the code field
\* before the first "(" when that part starts with SR, SK, SM, SL, SN, SP or
\* SQ, and None for every other input, a missing value included;
\* has_existing_mapping is true exactly when a code was returned.
C20_ExtractIcdMapping ==
  (fn = "extract_icd_mapping" /\ ret # <<>>) =>
    /\ (Recognised(arg[1]) => ret[1].existing_icd_mapping = BeforeParen(arg[1]))
    /\ (~Recognised(arg[1]) => ret[1].existing_icd_mapping = NoneVal)
    /\ (ret[1].has_existing_mapping <=> ret[1].existing_icd_mapping # NoneVal)
    /\ (ret[1].has_existing_mapping <=> Recognised(arg[1]))

\* a code field with leading blank and a parenthesis gave the code SR
C20_Witness ==
  /\ fn = "extract_icd_mapping"
  /\ ret # <<>>
  /\ arg[1] = <<" ", "S", "R", "(">>
  /\ ret[1].existing_icd_mapping = <<"S", "R">>
  /\ ret[1].has_existing_mapping

\* a cell that is missing, empty or whitespace-only
BlankValue(cell) ==
  cell \in {NaN, Missing} \/ \A k \in 1..Len(cell) : cell[k] = " "

GoodRows(rows) ==
  {k \in 1..Len(rows) :
     ~BlankValue(rows[k].NAMC_CODE) /\ ~BlankValue(rows[k].NAMC_term)}

\* the j-th element of a set of row numbers
Nth(S, j) == CHOOSE k \in S : Cardinality({x \in S : x < k}) = j - 1

ValidationRan ==
  /\ fn = "generate_codesystem"
  /\ ret # <<>>
  /\ arg[1].exists /\ arg[1].readable /\ arg[1].has_code /\ arg[1].has_term
  /\ arg[1].rows # <<>>

\* the rows that pass both checks are the valid concepts, in source order
GoodRowsKept ==
  LET rows == arg[1].rows
      v == ret[1].validation
      good == GoodRows(rows)
  IN  /\ Len(v.valid_concepts) = Cardinality(good)
      /\ \A j \in 1..Len(v.valid_concepts) :
           v.valid_concepts[j].code = Strip(rows[Nth(good, j)].NAMC_CODE)

\* C21: in the row validation a row whose code or term is missing, empty or
\* whitespace-only is left out of valid_concepts and counted as invalid (one
\* entry in errors per such row), and every other row is in valid_concepts,
\* in source order.
C21_MalformedRowCounted ==
  ValidationRan =>
    /\ GoodRowsKept
    /\ Len(ret[1].validation.errors) =
         Len(arg[1].rows) - Cardinality(GoodRows(arg[1].rows))

\* C22: when zero concepts are loaded create_mapping_file stops before any
\* lookup call and before any write of the artifact; generate_codesystem
\* returns failure and writes no file when a required column is missing or
\* no row is valid.
C22_NothingLoadedAborts ==
  /\ (fn = "create_mapping_file" /\ (~csv_exists \/ csv_rows = <<>>)) =>
       /\ pc \in {"import", "start", "aborted", "raised"}
       /\ (pc = "raised" => error = "RuntimeError")
       /\ calls = <<>>
       /\ final_mappings = <<>>
       /\ artifact \in {AbsentFile, StaleFile}
       /\ summary = NoSummary
  /\ (fn = "generate_codesystem" /\ ret # <<>>) =>
       ((~arg[1].has_code \/ ~arg[1].has_term \/ GoodRows(arg[1].rows) = {}) =>
          /\ ~ret[1].success
          /\ ret[1].output = NoOutput)

\* a run over a source file without rows stopped, an earlier artifact in place
C22_Witness ==
  /\ fn = "create_mapping_file"
  /\ pc = "aborted"
  /\ csv_exists
  /\ csv_rows = <<>>
  /\ artifact = StaleFile

\* C23: when the language model failed to load, create_mapping_file ends
\* at the construction of MappingSuggester with RuntimeError: no concept is
\* loaded or processed, no lookup call is made, nothing is written, and no
\* other error is ever the outcome of such a run.
C23_MissingModelIsFatal ==
  (fn = "create_mapping_file" /\ nlp = "none") =>
    /\ pc \in {"start", "raised"}
    /\ (pc = "raised" => error = "RuntimeError")
    /\ namaste_concepts = <<>>
    /\ calls = <<>>
    /\ log = <<>>
    /\ final_mappings = <<>>
    /\ artifact \in {AbsentFile, StaleFile}
    /\ summary = NoSummary

\* the model was missing, the source file held two concepts, and the run
\* ended with RuntimeError
C23_Witness ==
  /\ fn = "create_mapping_file"
  /\ nlp = "none"
  /\ pc = "raised"
  /\ error = "RuntimeError"
  /\ Len(csv_rows) = 2

\* a definition that is empty: the empty string, or an empty cell of the
\* source file
EmptyDefinition(c) == c.definition \in {<<>>, NaN}

\* C24: scoring with an empty text raises no error and gives 0.0 for both
\* partial scores, so a concept with an empty definition that has a retained
\* candidate gets a generated record with confidence 0.0 and equivalence
\* "relatedto".
C24_EmptyDefinitionScoresZero ==
  /\ ~(pc = "raised" /\ error = "TypeError")
  /\ \A c \in Range(needs_mapping) :
       (EmptyDefinition(c) /\ Logged("mapped", c.code)) =>
         \A m \in RecordsOf(c.code) :
           /\ final_mappings[m].confidence_score = 0
           /\ final_mappings[m].equivalence = "relatedto"
           /\ final_mappings[m].mapping_source = "generated"

\* C25: no generated record carries a placeholder instead of a reference
\* code: a candidate whose details or code lookup failed is never persisted.
C25_NoPlaceholderCode ==
  \A m \in 1..Len(final_mappings) :
    final_mappings[m].mapping_source = "generated" =>
      final_mappings[m].icd_code \notin {<<"Error fetching">>, <<"Err">>}

\* the records in view: the one built from a single score, or the batch's
RecordsInView ==
  IF fn = "generated_record" THEN Range(ret) ELSE Range(final_mappings)

\* C26: in every generated record the stored equivalence is the category of
\* the stored confidence_score (the score rounded to 4 decimals).
C26_CategoryOfStoredConfidence ==
  \A m \in RecordsInView :
    m.mapping_source = "generated" =>
      m.equivalence = determine_equivalence(m.confidence_score)

\* place of a concept in the source vocabulary
SourcePos(code) ==
  CHOOSE k \in 1..Len(namaste_concepts) : namaste_concepts[k].code = code

\* C27: in the records of a run every "existing" record precedes every
\* "generated" record, the records of each group follow the source order of
\* their concepts, the written artifact holds them in that order, and at the
\* summary existing count + generated count = total records.
C27_RecordOrderAndCounts ==
  /\ \A a, b \in 1..Len(final_mappings) :
       a < b =>
         /\ ~(final_mappings[a].mapping_source = "generated"
              /\ final_mappings[b].mapping_source = "existing")
         /\ (final_mappings[a].mapping_source = final_mappings[b].mapping_source =>
               SourcePos(final_mappings[a].namaste_code)
                 < SourcePos(final_mappings[b].namaste_code))
  /\ (pc = "done" /\ final_mappings # <<>>) => artifact.rows = final_mappings
  /\ pc = "done" =>
       /\ summary.total = Len(final_mappings)
       /\ summary.existing =
            Cardinality({m \in 1..Len(final_mappings) :
                           final_mappings[m].mapping_source = "existing"})
       /\ summary.generated =
            Cardinality({m \in 1..Len(final_mappings) :
                           final_mappings[m].mapping_source = "generated"})
       /\ summary.existing + summary.generated = summary.total

\* the source file held a concept to map followed by one with an existing
\* mapping; the finished artifact holds the second concept's record first
C27_Witness ==
  /\ pc = "done"
  /\ Len(namaste_concepts) = 2
  /\ ~namaste_concepts[1].has_existing_mapping
  /\ namaste_concepts[2].has_existing_mapping
  /\ Len(artifact.rows) = 2
  /\ artifact.rows[1].namaste_code = namaste_concepts[2].code
  /\ artifact.rows[1].mapping_source = "existing"
  /\ artifact.rows[2].namaste_code = namaste_concepts[1].code
  /\ artifact.rows[2].mapping_source = "generated"
  /\ summary = [total |-> 2, existing |-> 1, generated |-> 1]

\* what C28 says of every state of the client
TokenState ==
  /\ client.req.bearer =>
       /\ client.active = "global"
       /\ client.access_token # NoToken
       /\ client.req.token = client.access_token
  /\ client.pc = "token" =>
       /\ client.active = "global"
       /\ (client.access_token = NoToken \/ client.now >= client.token_expires)
  /\ client.access_token # NoToken =>
       client.token_expires = client.granted_at + client.expires_in - SafetyMargin

\* what C28 says of every step of the client
TokenStep ==
  /\ (client.pc = "idle" /\ client'.pc = "token") =>
       (client.access_token = NoToken \/ client.now >= client.token_expires)
  /\ (client.pc = "idle" /\ client'.pc = "http" /\ client.active = "global") =>
       /\ client.access_token # NoToken
       /\ client.now < client.token_expires
       /\ client'.req.token = client.access_token
       /\ client'.access_token = client.access_token
       /\ client'.token_expires = client.token_expires
       /\ client'.issued = client.issued
  /\ (client.pc = "token" /\ client'.pc = "http") =>
       /\ client'.granted_at = client.now
       /\ client'.token_expires = client.now + client'.expires_in - SafetyMargin
       /\ client'.access_token # client.access_token
  /\ (client.pc = "token" /\ client'.pc = "idle") =>
       /\ client'.last = "HTTPException"
       /\ client'.access_token = client.access_token
       /\ client'.token_expires = client.token_expires

\* C28: a token is requested only when none is cached or the time has
\* reached token_expires, otherwise the cached token is used without a
\* token request; after a successful request token_expires is the time of
\* the grant + expires_in - 60 seconds; a failed request leaves token and
\* expiry as they were; a bearer token is attached only to requests to the
\* global server.
C28_TokenManagement == []TokenState /\ [][TokenStep]_vars

\* a call on the global server went out with the token of an earlier call,
\* some time after that token was granted
C28_Witness ==
  /\ client.pc = "http"
  /\ client.active = "global"
  /\ ~client.refreshed
  /\ client.req.bearer
  /\ client.req.token = 1
  /\ client.access_token = 1
  /\ client.now > client.granted_at
  /\ client.now < client.token_expires

\* C29: the client selects the local server exactly when the check request
\* is answered with status 200 or 401; otherwise it selects the global
\* server if client id and client secret are both configured, and the
\* construction raises if not; the selection stays as made.
C29_ServerSelection ==
  client.pc \notin {"new", "check"} =>
    /\ (client.active = "local" <=> client.check_status \in {"200", "401"})
    /\ (client.active = "global" <=>
          /\ client.check_status \in {"500", "error", "hang"}
          /\ client.id_set /\ client.secret_set)
    /\ (client.pc = "failed" <=>
          /\ client.check_status \in {"500", "error", "hang"}
          /\ ~(client.id_set /\ client.secret_set))
    /\ (client.pc = "failed" => client.active = "none" /\ client.last = "HTTPException")

\* the local server answered 500, the credentials were configured, and the
\* client completed a call on the global server
C29_Witness ==
  /\ client.check_status = "500"
  /\ client.active = "global"
  /\ client.pc = "idle"
  /\ client.last = "ok"
  /\ client.access_token = 1

\* the places <<symptom, entity>> of the entities that were turned into
\* results: those of answered searches, before any entity that is refused
SeenPlaces(answers) ==
  {<<n, k>> \in (1..Len(answers)) \X (1..MaxEntities + 1) :
     /\ ~answers[n].raised
     /\ k <= Len(answers[n].entities)
     /\ \A j \in 1..k : answers[n].entities[j].title # NoneVal}

Earlier(p, q) == p[1] < q[1] \/ (p[1] = q[1] /\ p[2] < q[2])

\* C30: a failed search of one symptom is skipped and the other symptoms
\* are searched; suggested_conditions holds the distinct results in the
\* order in which they were first seen, cut to request.limit entries, and
\* total_found is its length.
C30_SymptomSearch ==
  (fn = "search_by_symptoms" /\ ret # <<>>) =>
    LET answers == arg[1]
        res == ret[1].suggested_conditions
        seen == SeenPlaces(answers)
        resultAt(p) == SearchResult(answers[p[1]].entities[p[2]])
        distinct == {resultAt(p) : p \in seen}
        firstOf(x) == CHOOSE p \in seen :
                        /\ resultAt(p) = x
                        /\ \A q \in seen : resultAt(q) = x => ~Earlier(q, p)
    IN  /\ ret[1].total_found = Len(res)
        /\ Len(res) <= arg[2]
        /\ Len(res) = IF Cardinality(distinct) < arg[2]
                      THEN Cardinality(distinct) ELSE arg[2]
        /\ \A a, b \in 1..Len(res) : a # b => res[a] # res[b]
        /\ \A a \in 1..Len(res) :
             /\ res[a] \in distinct
             /\ Cardinality({y \in distinct : Earlier(firstOf(y), firstOf(res[a]))})
                  = a - 1

\* the first of two searches failed and the second gave the same condition
\* twice: it is returned once
C30_Witness ==
  /\ fn = "search_by_symptoms"
  /\ ret # <<>>
  /\ Len(arg[1]) = 2
  /\ arg[1][1].raised
  /\ ~arg[1][2].raised
  /\ arg[2] = 2
  /\ ret[1].total_found = 1
  /\ ret[1].suggested_conditions[1].title = GoodTitle
  /\ arg[1][2].entities = <<arg[1][2].entities[1], arg[1][2].entities[1]>>

\* the scored entries in view: the one of a single scoring, the list of a
\* single suggest_mappings call, the list of the batch's last call
ScoredInView ==
  IF fn = "score_candidate" THEN Range(ret)
  ELSE IF fn = "suggest_mappings"
       THEN (IF ret = <<>> THEN {} ELSE Range(ret[1].result))
  ELSE Range(suggestions)

\* C12: the keyword score, the similarity score and the combined score of
\* every scored candidate lie in [0,1] (scores in units of 1e-5, the
\* combined score in units of 1e-6).
C12_ScoresInUnitInterval ==
  \A e \in ScoredInView :
    /\ 0 <= e.score_details.keyword /\ e.score_details.keyword <= 100000
    /\ 0 <= e.score_details.similarity /\ e.score_details.similarity <= 100000
    /\ 0 <= e.score /\ e.score <= 10 * 100000

\* C13: the combined score of every scored candidate is 0.7 times its
\* similarity score plus 0.3 times its keyword score (weights in tenths,
\* summing to one), in a single scoring and in every list that
\* suggest_mappings returns.
C13_WeightedSum ==
  /\ similarity_weight + keyword_weight = 10
  /\ \A e \in ScoredInView :
       e.score = 7 * e.score_details.similarity + 3 * e.score_details.keyword

\* a candidate was scored whose two partial scores differ and are both
\* positive, so that the weights matter
C13_Witness ==
  /\ fn = "score_candidate"
  /\ ret # <<>>
  /\ ret[1].score_details.similarity = 78565
  /\ ret[1].score_details.keyword = 100000
  /\ ret[1].score = 849955

====
